---- MODULE Spec2Model ----
(***************************************************************************)
(* Model of serverless-s3-sync (src/index.js): the plugin's sync() and     *)
(* clear() operations, the getS3Params callback handed to the remote-store *)
(* client, the decile progress handler, and the event handlers that settle *)
(* the promise returned to the host.                                       *)
(*                                                                         *)
(* Encoding of JavaScript values:                                          *)
(*   - an optional property of a configuration object is a set: {} when    *)
(*     the object has no such property, {v} when it has value v;           *)
(*   - a params object (rule value, s3Params accumulator) is a function    *)
(*     over ParamKeys whose value is Absent for a key the object lacks;    *)
(*   - a path is a sequence of segments [base, ext]; a glob is a sequence  *)
(*     of segment patterns.                                                *)
(***************************************************************************)
EXTENDS Integers, Sequences, FiniteSets, TLC

VARIABLES
    s3Sync,     \* serverless.service.custom.s3Sync
    env,        \* this.options.env
    invoked,    \* which hook the host has run: "none", "sync", "clear"
    promise,    \* what the invoked operation returned
    console,    \* lines and dots written through serverless.cli
    clients,    \* number of calls of client() so far
    uploader,   \* per target: the emitter returned by uploadDir / deleteDir
    ust,        \* per target: the emitter's life cycle
    percent,    \* per target: the handler's closure variable `percent`
    ticks,      \* per target: deciles for which printDot() was called
    crashed,    \* the process was ended by an uncaught exception
    local,      \* per target: files found by walking localDir
    remote,     \* per target: bucket listing under the prefix, per path
    uploaded,   \* per target: files put to the bucket
    deleted,    \* per target: keys deleted from the bucket
    resolved    \* per target and file: what getS3Params called back with

vars == <<s3Sync, env, invoked, promise, console, clients, uploader, ust,
          percent, ticks, crashed, local, remote, uploaded, deleted, resolved>>

----------------------------------------------------------------------------
(* Bounds of the model *)

MaxTargets == 2
MaxTotal == 2
MaxRules == 2
\* largest progressTotal of an event when one transfer is followed closely
MaxFineTotal == 3

TargetIdx == 1..MaxTargets

----------------------------------------------------------------------------
(* Values *)

Absent == "<absent>"
NoEnv == "<undefined>"
EmptyStr == ""

maxAsyncS3 == 5

servicePath == "/srv"

ParamKeys == {"ContentType", "CacheControl", "OnlyForEnv"}

EmptyObj == [k \in ParamKeys |-> Absent]

\* if (x), x || y : undefined and the empty string are falsy
Truthy(v) == v # Absent /\ v # EmptyStr

Has(fld) == fld # {}

Val(fld) == CHOOSE v \in fld : TRUE

\* !s.bucketName, !s.localDir
Falsy(fld) == fld = {} \/ fld = {EmptyStr}

----------------------------------------------------------------------------
(* Paths and globs *)

Seg(b, e) == [base |-> b, ext |-> e]

GlobStar == Seg("**", "")

Star == "*"

DirSeg(dir) == Seg(dir, "")

SegMatch(seg, pat) ==
    /\ pat.base = Star \/ pat.base = seg.base
    /\ pat.ext = Star \/ pat.ext = seg.ext

RECURSIVE minimatch(_, _)
minimatch(path, pat) ==
    IF pat = <<>> THEN path = <<>>
    ELSE IF Head(pat) = GlobStar
         THEN \/ minimatch(path, Tail(pat))
              \/ path # <<>> /\ minimatch(Tail(path), pat)
         ELSE /\ path # <<>>
              /\ SegMatch(Head(path), Head(pat))
              /\ minimatch(Tail(path), Tail(pat))

IndexHtml == <<Seg("index", "html")>>
DocsHtml == <<Seg("docs", ""), Seg("a", "html")>>
LogoPng == <<Seg("img", ""), Seg("logo", "png")>>

Paths == {IndexHtml, DocsHtml, LogoPng}

\* "*.html", "**/*.html", "**/*"
GlobHtml == <<Seg(Star, "html")>>
GlobAnyHtml == <<GlobStar, Seg(Star, "html")>>
GlobAll == <<GlobStar, Seg(Star, Star)>>

----------------------------------------------------------------------------
(* getS3Params: the per-file parameter callback built by sync() *)

\* variant: keys already present in target are kept
ObjectAssignKeep(target, source) ==
    [k \in ParamKeys |-> IF target[k] # Absent THEN target[k] ELSE source[k]]

\* Object.assign(target, source): every own key of source overwrites target
ObjectAssign(target, source) ==
    [k \in ParamKeys |-> IF source[k] # Absent THEN source[k] ELSE target[k]]

\* variant: the key is left in place
DeleteKeyNoop(obj, key) == obj

\* delete obj[key]
DeleteKey(obj, key) == [obj EXCEPT ![key] = Absent]

\* variant: onlyForEnv = onlyForEnv || s3Params['OnlyForEnv']
NextOnlyForEnvFirst(s3Params, onlyForEnv) ==
    IF Truthy(onlyForEnv) THEN onlyForEnv ELSE s3Params["OnlyForEnv"]

\* onlyForEnv = s3Params['OnlyForEnv'] || onlyForEnv
NextOnlyForEnv(s3Params, onlyForEnv) ==
    IF Truthy(s3Params["OnlyForEnv"]) THEN s3Params["OnlyForEnv"] ELSE onlyForEnv

\* path.resolve(localDir), localDir being [servicePath, s.localDir].join('/')
PathResolve(localDir) == <<DirSeg(localDir[1]), DirSeg(localDir[2])>>

\* `${path.resolve(localDir)}/${glob}`
Anchored(localDir, glob) == PathResolve(localDir) \o glob

\* body of s.params.forEach((param) => ...) for one rule
ForEachBody(acc, param, localFile, localDir) ==
    IF minimatch(localFile, Anchored(localDir, param.glob))
    THEN LET merged == ObjectAssign(acc.s3Params, param.obj)
         IN  [s3Params |-> merged,
              onlyForEnv |-> NextOnlyForEnv(merged, acc.onlyForEnv)]
    ELSE acc

RECURSIVE ForEach(_, _, _, _)
ForEach(rules, acc, localFile, localDir) ==
    IF rules = <<>> THEN acc
    ELSE ForEach(Tail(rules), ForEachBody(acc, Head(rules), localFile, localDir),
                 localFile, localDir)

\* variant: the params are passed on whatever onlyForEnv is
CallbackNeverSkips(onlyForEnv, optionsEnv, s3Params) ==
    [called |-> TRUE, skip |-> FALSE, params |-> s3Params]

\* cb(null, null) when the file is gated out, cb(null, s3Params) otherwise
Callback(onlyForEnv, optionsEnv, s3Params) ==
    IF Truthy(onlyForEnv) /\ onlyForEnv # optionsEnv
    THEN [called |-> TRUE, skip |-> TRUE, params |-> EmptyObj]
    ELSE [called |-> TRUE, skip |-> FALSE, params |-> s3Params]

getS3Params(s, localDir, localFile, optionsEnv) ==
    LET start == [s3Params |-> EmptyObj, onlyForEnv |-> Absent]
        acc == IF s.params.isArray
               THEN LET r == ForEach(s.params.rules, start, localFile, localDir)
                    IN  [r EXCEPT !.s3Params = DeleteKey(r.s3Params, "OnlyForEnv")]
               ELSE start
    IN  Callback(acc.onlyForEnv, optionsEnv, acc.s3Params)

NotCalled == [called |-> FALSE, skip |-> FALSE, params |-> EmptyObj]

----------------------------------------------------------------------------
(* Parameters built by sync() and clear() for one configured target *)

\* [servicePath, s.localDir].join('/')
JoinLocalDir(s) == IF Has(s.localDir) THEN Val(s.localDir) ELSE Absent

BucketPrefixOf(s) == IF Has(s.bucketPrefix) THEN Val(s.bucketPrefix) ELSE ""

\* variant: objects are world-readable unless an acl is configured
AclDefaultPublicRead(s) == IF Has(s.acl) THEN Val(s.acl) ELSE "public-read"

AclOf(s) == IF Has(s.acl) THEN Val(s.acl) ELSE "private"

FollowSymlinksOf(s) == IF Has(s.followSymlinks) THEN Val(s.followSymlinks) ELSE FALSE

\* variant: deleteRemoved defaults to false
DeleteRemovedDefaultFalse(s) ==
    IF Has(s.deleteRemoved) THEN Val(s.deleteRemoved) ELSE FALSE

DeleteRemovedOf(s) == IF Has(s.deleteRemoved) THEN Val(s.deleteRemoved) ELSE TRUE

\* if (!s.bucketName || !s.localDir) throw 'Invalid custom.s3Sync'
Invalid(s) == Falsy(s.bucketName) \/ Falsy(s.localDir)

UploadDirParams(s) ==
    [maxAsyncS3 |-> maxAsyncS3,
     localDir |-> <<servicePath, JoinLocalDir(s)>>,
     deleteRemoved |-> DeleteRemovedOf(s),
     followSymlinks |-> FollowSymlinksOf(s),
     s3Params |-> [Bucket |-> s.bucketName,
                   Prefix |-> BucketPrefixOf(s),
                   ACL |-> AclOf(s)],
     defaultContentType |-> s.defaultContentType]

DeleteDirParams(s) ==
    [Bucket |-> s.bucketName, Prefix |-> BucketPrefixOf(s)]

NoUploader == [kind |-> "none", client |-> 0, params |-> <<>>]

----------------------------------------------------------------------------
(* Configurations *)

SeqsUpTo(S, n) == UNION {[1..k -> S] : k \in 0..n}

Target(bucketName, localDir, deleteRemoved, params) ==
    [bucketName |-> bucketName,
     localDir |-> localDir,
     bucketPrefix |-> {},
     acl |-> {},
     followSymlinks |-> {},
     defaultContentType |-> {},
     deleteRemoved |-> deleteRemoved,
     params |-> params]

NoParams == [isArray |-> FALSE, rules |-> <<>>]

ParamsArray(rules) == [isArray |-> TRUE, rules |-> rules]

NotAnArray == [isArray |-> FALSE, targets |-> <<>>]

ConfigArray(targets) == [isArray |-> TRUE, targets |-> targets]

\* a complete target, one without bucketName, one without localDir
LifeTargets ==
    {Target({"bkt"}, {"dist"}, {}, NoParams),
     Target({}, {"dist"}, {}, NoParams),
     Target({"bkt"}, {}, {}, NoParams)}

NoListing == [p \in Paths |-> "none"]

\* one complete target with the given deleteRemoved property and rules
OneTarget(deleteRemoved, params) ==
    ConfigArray(<<Target({"bkt"}, {"dist"}, deleteRemoved, params)>>)

Rule(glob, obj) == [glob |-> glob, obj |-> obj]

Obj(contentType, cacheControl, onlyForEnv) ==
    [k \in ParamKeys |->
        CASE k = "ContentType" -> contentType
          [] k = "CacheControl" -> cacheControl
          [] k = "OnlyForEnv" -> onlyForEnv]

RuleObjs ==
    {Obj(ct, cc, oe) : ct \in {Absent, "text/html", "text/html; charset=utf-8"},
                       cc \in {Absent, "no-cache"},
                       oe \in {Absent, EmptyStr, "dev", "prod"}}

Rules == {Rule(g, o) : g \in {GlobHtml, GlobAnyHtml}, o \in RuleObjs}

\* rule lists of the transfer scenarios: none, gate everything, gate html
DirParams ==
    {NoParams,
     ParamsArray(<<Rule(GlobAll, Obj(Absent, Absent, "prod"))>>),
     ParamsArray(<<Rule(GlobAnyHtml, Obj("text/html", Absent, "prod"))>>)}

----------------------------------------------------------------------------
(* Initial states *)

InitRun ==
    /\ invoked = "none"
    /\ promise = "none"
    /\ console = <<>>
    /\ clients = 0
    /\ uploader = [t \in TargetIdx |-> NoUploader]
    /\ ust = [t \in TargetIdx |-> "none"]
    /\ percent = [t \in TargetIdx |-> 0]
    /\ ticks = [t \in TargetIdx |-> <<>>]
    /\ crashed = FALSE
    /\ uploaded = [t \in TargetIdx |-> {}]
    /\ deleted = [t \in TargetIdx |-> {}]
    /\ resolved = [t \in TargetIdx |-> [p \in Paths |-> NotCalled]]

\* any configuration of up to MaxTargets targets, nothing to transfer
Init ==
    /\ s3Sync \in {NotAnArray} \cup
                  {ConfigArray(ts) : ts \in SeqsUpTo(LifeTargets, MaxTargets)}
    /\ env = "dev"
    /\ local = [t \in TargetIdx |-> {}]
    /\ remote = [t \in TargetIdx |-> NoListing]
    /\ InitRun

\* up to MaxTargets complete targets, nothing to transfer
InitProgress ==
    /\ s3Sync \in {ConfigArray(ts) :
                      ts \in SeqsUpTo({Target({"bkt"}, {"dist"}, {}, NoParams)},
                                      MaxTargets)}
    /\ env = "dev"
    /\ local = [t \in TargetIdx |-> {}]
    /\ remote = [t \in TargetIdx |-> NoListing]
    /\ InitRun

\* one target, any local tree and any bucket listing
\* a complete target with every optional property supplied or omitted
OptionTargets ==
    {[Target({"bkt"}, {"dist"}, dr, NoParams) EXCEPT
         !.bucketPrefix = bp, !.acl = acl,
         !.followSymlinks = fs, !.defaultContentType = dct] :
        bp \in {{}, {EmptyStr}, {"site/"}},
        acl \in {{}, {"public-read"}},
        fs \in {{}, {TRUE}, {FALSE}},
        dct \in {{}, {"text/plain"}},
        dr \in {{}, {TRUE}, {FALSE}}}

\* entries with or without bucketName, localDir, bucketPrefix and rules
LooseTargets ==
    {[Target(bn, ld, {}, ps) EXCEPT !.bucketPrefix = bp] :
        bn \in {{}, {"bkt"}},
        ld \in {{}, {"dist"}},
        bp \in {{}, {"site/"}},
        ps \in {NoParams,
                ParamsArray(<<Rule(GlobHtml, Obj("text/html", Absent, Absent))>>)}}

\* one target over all its options, or up to MaxTargets loose entries
InitConfig ==
    /\ InitRun
    /\ s3Sync \in {ConfigArray(<<s>>) : s \in OptionTargets}
                  \cup {ConfigArray(ts) : ts \in SeqsUpTo(LooseTargets, MaxTargets)}
    /\ env = "dev"
    /\ local = [t \in TargetIdx |-> {}]
    /\ remote = [t \in TargetIdx |-> NoListing]

\* one complete target, nothing on disk: only its progress is of interest
InitTick ==
    /\ InitRun
    /\ s3Sync = ConfigArray(<<Target({"bkt"}, {"dist"}, {}, NoParams)>>)
    /\ env = "dev"
    /\ local = [t \in TargetIdx |-> {}]
    /\ remote = [t \in TargetIdx |-> NoListing]

InitDir ==
    /\ \E dr \in {{}, {TRUE}, {FALSE}} : \E ps \in DirParams :
          s3Sync = OneTarget(dr, ps)
    /\ env \in {"dev", "prod"}
    /\ \E tree \in SUBSET Paths : \E listing \in [Paths -> {"none", "same", "differs"}] :
          /\ local = [t \in TargetIdx |-> IF t = 1 THEN tree ELSE {}]
          /\ remote = [t \in TargetIdx |-> IF t = 1 THEN listing ELSE NoListing]
    /\ InitRun

\* one target with one new local file, docs/a.html, which "**/*.html"
\* matches and "*.html" does not; any rule list of up to MaxRules rules
InitParams ==
    /\ \E ps \in {NoParams} \cup {ParamsArray(rs) : rs \in SeqsUpTo(Rules, MaxRules)} :
          s3Sync = OneTarget({}, ps)
    /\ env \in {"dev", NoEnv}
    /\ local = [t \in TargetIdx |-> IF t = 1 THEN {DocsHtml} ELSE {}]
    /\ remote = [t \in TargetIdx |-> NoListing]
    /\ InitRun

----------------------------------------------------------------------------
(* sync() and clear() *)

\* variant: a configuration that is no array is taken as an empty list
IsArrayLenient(cfg) == TRUE

\* Array.isArray(s3Sync)
IsArray(cfg) == cfg.isArray

Targets == s3Sync.targets

\* index of the first element for which the map callback throws, or
\* Len(targets) + 1 when it throws for none
FirstInvalid(targets) ==
    IF \E i \in 1..Len(targets) : Invalid(targets[i])
    THEN CHOOSE i \in 1..Len(targets) :
            /\ Invalid(targets[i])
            /\ \A j \in 1..(i - 1) : ~Invalid(targets[j])
    ELSE Len(targets) + 1

\* variant: one client, created once, serves every target of the invocation
StartAllSharedClient(started, kind) ==
    /\ clients' = IF started = {} THEN clients ELSE 1
    /\ uploader' = [t \in TargetIdx |->
                      IF t \in started
                      THEN [kind |-> kind,
                            client |-> 1,
                            params |-> IF kind = "uploadDir"
                                       THEN UploadDirParams(Targets[t])
                                       ELSE DeleteDirParams(Targets[t])]
                      ELSE uploader[t]]
    /\ ust' = [t \in TargetIdx |-> IF t \in started THEN "running" ELSE ust[t]]

\* this.client().uploadDir(params) / this.client().deleteDir(params) for
\* the targets in `started`, each with a client of its own
StartAll(started, kind) ==
    /\ clients' = clients + Cardinality(started)
    /\ uploader' = [t \in TargetIdx |->
                      IF t \in started
                      THEN [kind |-> kind,
                            client |-> clients + t,
                            params |-> IF kind = "uploadDir"
                                       THEN UploadDirParams(Targets[t])
                                       ELSE DeleteDirParams(Targets[t])]
                      ELSE uploader[t]]
    /\ ust' = [t \in TargetIdx |-> IF t \in started THEN "running" ELSE ust[t]]

Sync ==
    /\ invoked = "none"
    /\ invoked' = "sync"
    /\ IF ~IsArray(s3Sync)
       THEN /\ console' = Append(console, "No configuration found")
            /\ promise' = "fulfilled"
            /\ UNCHANGED <<clients, uploader, ust>>
       ELSE LET k == FirstInvalid(Targets)
            IN  /\ console' = Append(console, "Syncing directories and S3 prefixes...")
                /\ StartAll(1..(k - 1), "uploadDir")
                /\ promise' = IF k <= Len(Targets) THEN "threw" ELSE "pending"
    /\ UNCHANGED <<s3Sync, env, percent, ticks, crashed, local, remote,
                   uploaded, deleted, resolved>>

\* variant: clear() validates its targets the way sync() does
ClearValidating ==
    /\ invoked = "none"
    /\ invoked' = "clear"
    /\ IF ~IsArray(s3Sync)
       THEN /\ promise' = "fulfilled"
            /\ UNCHANGED <<console, clients, uploader, ust>>
       ELSE LET k == FirstInvalid(Targets)
            IN  /\ console' = Append(console, "Removing S3 objects...")
                /\ StartAll(1..(k - 1), "deleteDir")
                /\ promise' = IF k <= Len(Targets) THEN "threw" ELSE "pending"
    /\ UNCHANGED <<s3Sync, env, percent, ticks, crashed, local, remote,
                   uploaded, deleted, resolved>>

Clear ==
    /\ invoked = "none"
    /\ invoked' = "clear"
    /\ IF ~IsArray(s3Sync)
       THEN /\ promise' = "fulfilled"
            /\ UNCHANGED <<console, clients, uploader, ust>>
       ELSE /\ console' = Append(console, "Removing S3 objects...")
            /\ StartAll(1..Len(Targets), "deleteDir")
            /\ promise' = "pending"
    /\ UNCHANGED <<s3Sync, env, percent, ticks, crashed, local, remote,
                   uploaded, deleted, resolved>>

----------------------------------------------------------------------------
(* Event handlers *)

\* Math.round((amount / total) * 10) * 10
Current(progressAmount, progressTotal) ==
    ((20 * progressAmount + progressTotal) \div (2 * progressTotal)) * 10

\* variant: a dot whenever the decile differs from the stored one
TicksOnChange(progressAmount, progressTotal, pct) ==
    /\ progressTotal # 0
    /\ Current(progressAmount, progressTotal) # pct

\* the handler prints a dot and stores `current`
Ticks(progressAmount, progressTotal, pct) ==
    /\ progressTotal # 0
    /\ Current(progressAmount, progressTotal) > pct

Live(t) == ust[t] = "running" /\ ~crashed

OnProgress(t) ==
    /\ Live(t)
    /\ \E progressTotal \in 0..MaxTotal :
       \E progressAmount \in 0..progressTotal :
          IF Ticks(progressAmount, progressTotal, percent[t])
          THEN LET current == Current(progressAmount, progressTotal)
               IN  /\ percent' = [percent EXCEPT ![t] = current]
                   /\ ticks' = [ticks EXCEPT ![t] = Append(@, current)]
                   /\ console' = Append(console, ".")
          ELSE UNCHANGED <<percent, ticks, console>>
    /\ UNCHANGED <<s3Sync, env, invoked, promise, clients, uploader, ust,
                   crashed, local, remote, uploaded, deleted, resolved>>

\* the same handler, for progress events whose progressTotal is in `totals`
Progress(t, totals) ==
    /\ Live(t)
    /\ \E progressTotal \in totals :
       \E progressAmount \in 0..progressTotal :
          IF Ticks(progressAmount, progressTotal, percent[t])
          THEN LET current == Current(progressAmount, progressTotal)
               IN  /\ percent' = [percent EXCEPT ![t] = current]
                   /\ ticks' = [ticks EXCEPT ![t] = Append(@, current)]
                   /\ console' = Append(console, ".")
          ELSE UNCHANGED <<percent, ticks, console>>
    /\ UNCHANGED <<s3Sync, env, invoked, promise, clients, uploader, ust,
                   crashed, local, remote, uploaded, deleted, resolved>>

\* a progress event of a transfer that has nothing to transfer
OnIdleProgress(t) == Progress(t, {0})

\* a progress event of a transfer followed closely (totals up to MaxFineTotal)
OnFineProgress(t) == Progress(t, 0..MaxFineTotal)

\* files the transfer has to put: new or changed ones
ToUpload(t) == {f \in local[t] : remote[t][f] # "same"}

\* keys the transfer has to delete
ToDelete(t) ==
    IF uploader[t].kind = "deleteDir"
    THEN {k \in Paths : remote[t][k] # "none"}
    ELSE IF uploader[t].params.deleteRemoved
         THEN {k \in Paths : remote[t][k] # "none" /\ k \notin local[t]}
         ELSE {}

TransfersDone(t) ==
    /\ uploader[t].kind = "uploadDir" =>
          \A f \in ToUpload(t) : resolved[t][f].called
    /\ ToDelete(t) \subseteq deleted[t]

\* uploader.on('end', () => resolve('done'))
OnEnd(t) ==
    /\ Live(t)
    /\ TransfersDone(t)
    /\ ust' = [ust EXCEPT ![t] = "ended"]
    /\ UNCHANGED <<s3Sync, env, invoked, promise, console, clients, uploader,
                   percent, ticks, crashed, local, remote, uploaded, deleted,
                   resolved>>

\* uploader.on('error', (err) => { throw err }): the exception leaves the
\* emitter uncaught; the process ends unless the host keeps it alive
OnError(t) ==
    /\ Live(t)
    /\ ust' = [ust EXCEPT ![t] = "errored"]
    /\ crashed' \in BOOLEAN
    /\ UNCHANGED <<s3Sync, env, invoked, promise, console, clients, uploader,
                   percent, ticks, local, remote, uploaded, deleted, resolved>>

\* variant: settles as soon as one target's promise has been resolved
AllResolvedAny == \E t \in 1..Len(Targets) : ust[t] = "ended"

\* Promise.all(promises): every target's promise has been resolved
AllResolved == \A t \in 1..Len(Targets) : ust[t] = "ended"

FinalMessage == IF invoked = "sync" THEN "Synced." ELSE "Removed."

\* variant: the completion handler prints one dot per target
AllThenDotPerTarget ==
    /\ promise = "pending"
    /\ ~crashed
    /\ AllResolved
    /\ console' = console \o [t \in 1..Len(Targets) |-> "."] \o <<"", FinalMessage>>
    /\ promise' = "fulfilled"
    /\ UNCHANGED <<s3Sync, env, invoked, clients, uploader, ust, percent,
                   ticks, crashed, local, remote, uploaded, deleted, resolved>>

\* Promise.all(promises).then(() => { printDot; consoleLog('') ; consoleLog(final) })
AllThen ==
    /\ promise = "pending"
    /\ ~crashed
    /\ AllResolved
    /\ console' = console \o <<".", "", FinalMessage>>
    /\ promise' = "fulfilled"
    /\ UNCHANGED <<s3Sync, env, invoked, clients, uploader, ust, percent,
                   ticks, crashed, local, remote, uploaded, deleted, resolved>>

----------------------------------------------------------------------------
(* The transfer run by uploadDir / deleteDir *)

\* the path the client hands to getS3Params
FullPath(localDir, f) == PathResolve(localDir) \o f

UploadFile(t, f) ==
    /\ Live(t)
    /\ uploader[t].kind = "uploadDir"
    /\ f \in ToUpload(t)
    /\ ~resolved[t][f].called
    /\ LET localDir == uploader[t].params.localDir
           r == getS3Params(Targets[t], localDir, FullPath(localDir, f), env)
       IN  /\ resolved' = [resolved EXCEPT ![t][f] = r]
           /\ uploaded' = [uploaded EXCEPT ![t] = IF r.skip THEN @ ELSE @ \cup {f}]
    /\ UNCHANGED <<s3Sync, env, invoked, promise, console, clients, uploader,
                   ust, percent, ticks, crashed, local, remote, deleted>>

DeleteObject(t, k) ==
    /\ Live(t)
    /\ k \in ToDelete(t) \ deleted[t]
    /\ deleted' = [deleted EXCEPT ![t] = @ \cup {k}]
    /\ UNCHANGED <<s3Sync, env, invoked, promise, console, clients, uploader,
                   ust, percent, ticks, crashed, local, remote, uploaded,
                   resolved>>

----------------------------------------------------------------------------
(* Specifications *)

\* the operations and the events that settle the promise
Next ==
    \/ Sync
    \/ Clear
    \/ \E t \in TargetIdx : OnEnd(t)
    \/ \E t \in TargetIdx : OnError(t)
    \/ AllThen

\* every configuration; progress events left out
Spec == Init /\ [][Next]_vars

NextIdle ==
    \/ Next
    \/ \E t \in TargetIdx : OnIdleProgress(t)

\* every configuration, nothing to transfer: progressTotal stays 0
SpecIdle == Init /\ [][NextIdle]_vars

NextTick ==
    \/ Next
    \/ \E t \in TargetIdx : OnFineProgress(t)

\* one target whose progress events carry totals up to MaxFineTotal
SpecTick == InitTick /\ [][NextTick]_vars

\* sync() and clear() over the properties a target may carry
SpecConfig == InitConfig /\ [][Next]_vars

NextProgress ==
    \/ Next
    \/ \E t \in TargetIdx : OnProgress(t)

\* complete targets, with the progress events of their transfers
SpecProgress == InitProgress /\ [][NextProgress]_vars

NextDir ==
    \/ Next
    \/ \E t \in TargetIdx : \E f \in Paths : UploadFile(t, f)
    \/ \E t \in TargetIdx : \E k \in Paths : DeleteObject(t, k)

\* one target, with the transfers of its local tree and bucket listing
SpecDir == InitDir /\ [][NextDir]_vars

NextParams ==
    \/ Sync
    \/ \E t \in TargetIdx : \E f \in Paths : UploadFile(t, f)

\* one target and one file, with every rule list
SpecParams == InitParams /\ [][NextParams]_vars

----------------------------------------------------------------------------
(* Claims *)

Max(S) == CHOOSE m \in S : \A n \in S : n <= m

AnyUploader == \E t \in TargetIdx : uploader[t].kind # "none"

\* C1: if some configured target lacks bucketName or localDir, sync()
\* fails and no client has been created and no remote operation started
\* for any target of the invocation, earlier valid targets included.
C1_NoRemoteOperationWhenInvalid ==
    (invoked = "sync" /\ s3Sync.isArray
        /\ \E i \in 1..Len(Targets) : Invalid(Targets[i]))
    => (promise = "threw" /\ clients = 0 /\ ~AnyUploader)

\* C2: once a target's transfer has emitted 'error', the promise returned
\* by sync() / clear() has failed; it is not left pending.
C2_RejectedOnError ==
    \A t \in TargetIdx :
        ust[t] = "errored" => promise \in {"rejected", "threw"}

FinalMessages ==
    {i \in DOMAIN console : console[i] \in {"Synced.", "Removed."}}

FullSuccess ==
    /\ \A t \in 1..Len(Targets) : ust[t] = "ended"
    /\ \A t \in TargetIdx : ust[t] # "errored"

\* C3: the final "Synced." / "Removed." message is printed at most once and
\* only when every configured target has emitted 'end' and none 'error';
\* the promise is fulfilled only in that situation.
C3_FinalMessageOnlyOnFullSuccess ==
    /\ Cardinality(FinalMessages) <= 1
    /\ FinalMessages # {} => FullSuccess
    /\ \A i \in FinalMessages : console[i] = FinalMessage
    /\ promise = "fulfilled" => FullSuccess

C3_Witness ==
    /\ Len(Targets) = MaxTargets
    /\ promise = "fulfilled"
    /\ FinalMessages # {}
    /\ \A t \in TargetIdx : ust[t] = "ended"

\* C10: for each target the deciles at which ticks were emitted are
\* strictly increasing, whatever the sequence of progress events.
C10_TicksStrictlyIncreasing ==
    \A t \in TargetIdx :
        \A i, j \in DOMAIN ticks[t] : i < j => ticks[t][i] < ticks[t][j]

C10_Witness ==
    \E t \in TargetIdx : Len(ticks[t]) >= 2 /\ ust[t] = "running"

\* the rules of target t, and the indexes of those whose glob matches f
RulesOf(t) == Targets[t].params.rules

Matching(t, f) ==
    {i \in 1..Len(RulesOf(t)) :
        minimatch(FullPath(uploader[t].params.localDir, f),
                  Anchored(uploader[t].params.localDir, RulesOf(t)[i].glob))}

\* matching rules that give key k a value
Defining(t, f, k) == {i \in Matching(t, f) : RulesOf(t)[i].obj[k] # Absent}

\* matching rules that name an environment
Gating(t, f) == {i \in Matching(t, f) : Truthy(RulesOf(t)[i].obj["OnlyForEnv"])}

\* the last matching rule that names an environment names another one
GatedOut(t, f) ==
    /\ Targets[t].params.isArray
    /\ Gating(t, f) # {}
    /\ RulesOf(t)[Max(Gating(t, f))].obj["OnlyForEnv"] # env

Called(t, f) == uploader[t].kind = "uploadDir" /\ resolved[t][f].called

\* C4: getS3Params calls back with null (skip) exactly when the last
\* matching rule that names an environment names one other than the active
\* environment; otherwise it passes params and the file is uploaded.
C4_SkipIffLastOnlyForEnvDiffers ==
    \A t \in TargetIdx : \A f \in Paths :
        Called(t, f) =>
            /\ resolved[t][f].skip <=> GatedOut(t, f)
            /\ ~resolved[t][f].skip <=> f \in uploaded[t]

C4_Witness ==
    \E f \in Paths :
        /\ Called(1, f)
        /\ resolved[1][f].skip
        /\ Gating(1, f) = {1, 2}
        /\ RulesOf(1)[1].obj["OnlyForEnv"] = env

\* C5: for every key, the resolved params hold the value of the last rule
\* in listed order that matches the file and defines the key; a key that
\* no matching rule defines is absent.
C5_LastMatchingRuleWinsPerKey ==
    \A t \in TargetIdx : \A f \in Paths :
        (Called(t, f) /\ ~resolved[t][f].skip) =>
            \A k \in ParamKeys \ {"OnlyForEnv"} :
                resolved[t][f].params[k] =
                    IF Defining(t, f, k) = {} THEN Absent
                    ELSE RulesOf(t)[Max(Defining(t, f, k))].obj[k]

C5_Witness ==
    \E f \in Paths :
        /\ Called(1, f)
        /\ ~resolved[1][f].skip
        /\ Len(RulesOf(1)) = 2
        /\ Matching(1, f) = {2}
        /\ RulesOf(1)[1].obj["ContentType"] = "text/html"
        /\ RulesOf(1)[2].obj["ContentType"] = "text/html; charset=utf-8"
        /\ RulesOf(1)[1].obj["CacheControl"] = "no-cache"
        /\ resolved[1][f].params["ContentType"] = "text/html; charset=utf-8"
        /\ resolved[1][f].params["CacheControl"] = Absent

\* C6: the params passed to the remote-store client for a file never hold
\* the OnlyForEnv key.
C6_OnlyForEnvNeverPassed ==
    \A t \in TargetIdx : \A f \in Paths :
        resolved[t][f].params["OnlyForEnv"] = Absent

C6_Witness ==
    \E f \in Paths :
        /\ Called(1, f)
        /\ ~resolved[1][f].skip
        /\ Cardinality(Gating(1, f)) >= 2
        /\ f \in uploaded[1]

\* the deleteRemoved property of target t as configured; true when omitted
ConfiguredDeleteRemoved(t) == Targets[t].deleteRemoved # {FALSE}

\* keys listed under the prefix that have no local file
Orphans(t) == {k \in Paths : remote[t][k] # "none" /\ k \notin local[t]}

\* C7: a file gated out by OnlyForEnv is never uploaded during the sync
\* and its remote object, if any, is not deleted by it, even when
\* deleteRemoved is true.
C7_SkippedFileNeitherUploadedNorDeleted ==
    \A t \in TargetIdx :
        uploader[t].kind = "uploadDir" =>
            \A f \in local[t] :
                GatedOut(t, f) => f \notin uploaded[t] /\ f \notin deleted[t]

C7_Witness ==
    \E f \in local[1] :
        /\ ust[1] = "ended"
        /\ resolved[1][f].called
        /\ resolved[1][f].skip
        /\ remote[1][f] = "differs"
        /\ uploader[1].params.deleteRemoved
        /\ deleted[1] # {}

\* C8: when a target's sync has completed, the deleted keys are exactly
\* the listed keys without a local file if deleteRemoved is true or
\* omitted, and none if it is false; a key with a local file is never
\* deleted.
C8_DeletesExactlyOrphans ==
    \A t \in TargetIdx :
        uploader[t].kind = "uploadDir" =>
            /\ deleted[t] \cap local[t] = {}
            /\ ~ConfiguredDeleteRemoved(t) => deleted[t] = {}
            /\ ust[t] = "ended" =>
                  deleted[t] = IF ConfiguredDeleteRemoved(t) THEN Orphans(t) ELSE {}

C8_Witness ==
    /\ uploader[1].kind = "uploadDir"
    /\ ust[1] = "ended"
    /\ Targets[1].deleteRemoved = {}
    /\ Cardinality(deleted[1]) = 2
    /\ \E f \in local[1] : remote[1][f] # "none"

Dots == {i \in DOMAIN console : console[i] = "."}

\* C11 as stated: when every target's progress total stays 0, no dot is
\* written to the console at any point of the invocation.
C11_NoDotWhenNothingToTransfer == Dots = {}

\* C11, amended: when every target's progress total stays 0, the progress
\* handler writes no dot; the only dot of the invocation is the one the
\* completion handler prints right before the blank line and the final
\* message, once every target has ended.
C11_OnlyTheCompletionDot ==
    /\ \A t \in TargetIdx : ticks[t] = <<>> /\ percent[t] = 0
    /\ Cardinality(Dots) <= 1
    /\ \A i \in Dots :
          /\ promise = "fulfilled"
          /\ Len(console) = i + 2
          /\ console[i + 1] = ""
          /\ console[i + 2] = FinalMessage

C11_Witness ==
    /\ Len(Targets) = MaxTargets
    /\ promise = "fulfilled"
    /\ Cardinality(Dots) = 1
    /\ invoked = "clear"

\* the progress events (amount, total) that make target t's handler print
\* the tick for decile d when its counter stands at pct
EventsTicking(pct, d) ==
    {e \in (0..MaxFineTotal) \X (1..MaxFineTotal) :
        /\ e[1] <= e[2]
        /\ Ticks(e[1], e[2], pct)
        /\ Current(e[1], e[2]) = d}

\* C12 as stated: a tick for decile d is emitted only if the transferred
\* fraction has reached d percent, 10 * amount >= (d / 10) * total, i.e. the
\* decile is amount / total rounded down to a multiple of 10%.
C12_TickOnlyWhenFractionReached ==
    [][\A t \in TargetIdx :
          Len(ticks'[t]) > Len(ticks[t]) =>
             \A e \in EventsTicking(percent[t], percent'[t]) :
                100 * e[1] >= percent'[t] * e[2]]_vars

\* C13: when the s3Sync configuration is not an array, sync() and clear()
\* resolve successfully, create no client, start no remote operation and
\* print neither a dot nor the final message; sync() logs the single line
\* "No configuration found" and clear() logs nothing.
C13_NoConfigurationIsANoOp ==
    (~s3Sync.isArray /\ invoked # "none") =>
        /\ promise = "fulfilled"
        /\ clients = 0
        /\ ~AnyUploader
        /\ \A t \in TargetIdx : ust[t] = "none" /\ ticks[t] = <<>>
        /\ ~crashed
        /\ console = IF invoked = "sync"
                     THEN <<"No configuration found">>
                     ELSE <<>>

C13_Witness ==
    /\ ~s3Sync.isArray
    /\ invoked = "sync"
    /\ promise = "fulfilled"
    /\ console = <<"No configuration found">>

\* the configured value of an optional property, or the default d
OrDefault(fld, d) == IF fld = {} THEN d ELSE CHOOSE v \in fld : TRUE

\* C14: for every target whose transfer was started, the values passed to
\* the client are the configured ones where the property is supplied and
\* the defaults otherwise: bucketPrefix "", acl "private", followSymlinks
\* false, deleteRemoved true, defaultContentType only when configured;
\* bucketName is passed unchanged as the bucket.
C14_ConfiguredValuesOrDefaultsPassed ==
    \A t \in 1..Len(Targets) :
       LET s == Targets[t]
           p == uploader[t].params
       IN  /\ uploader[t].kind = "uploadDir" =>
                /\ p.s3Params.Bucket = s.bucketName
                /\ p.s3Params.Prefix = OrDefault(s.bucketPrefix, "")
                /\ p.s3Params.ACL = OrDefault(s.acl, "private")
                /\ p.followSymlinks = OrDefault(s.followSymlinks, FALSE)
                /\ p.deleteRemoved = OrDefault(s.deleteRemoved, TRUE)
                /\ p.defaultContentType = s.defaultContentType
           /\ uploader[t].kind = "deleteDir" =>
                /\ p.Bucket = s.bucketName
                /\ p.Prefix = OrDefault(s.bucketPrefix, "")

C14_Witness ==
    /\ Len(Targets) = 1
    /\ Targets[1] = Target({"bkt"}, {"dist"}, {}, NoParams)
    /\ uploader[1].kind = "uploadDir"
    /\ uploader[1].params.s3Params = [Bucket |-> {"bkt"}, Prefix |-> "", ACL |-> "private"]
    /\ uploader[1].params.deleteRemoved
    /\ ~uploader[1].params.followSymlinks
    /\ uploader[1].params.defaultContentType = {}

\* C17: clear() validates nothing: for every entry of the configuration
\* array, also one without bucketName, it calls deleteDir with exactly the
\* entry's bucket and its prefix ("" when omitted), whatever localDir and
\* params are, and it never throws a configuration error.
C17_ClearDeletesEveryEntryUnvalidated ==
    (invoked = "clear" /\ s3Sync.isArray) =>
        /\ promise # "threw"
        /\ clients = Len(Targets)
        /\ \A t \in 1..Len(Targets) :
              /\ uploader[t].kind = "deleteDir"
              /\ uploader[t].params =
                    [Bucket |-> Targets[t].bucketName,
                     Prefix |-> IF Targets[t].bucketPrefix = {}
                                THEN ""
                                ELSE CHOOSE v \in Targets[t].bucketPrefix : TRUE]

C17_Witness ==
    /\ invoked = "clear"
    /\ Len(Targets) = MaxTargets
    /\ Targets[1].bucketName = {} /\ Targets[1].bucketPrefix = {}
    /\ Targets[1].localDir = {}
    /\ uploader[1].kind = "deleteDir"
    /\ uploader[1].params = [Bucket |-> {}, Prefix |-> ""]
    /\ uploader[MaxTargets].kind = "deleteDir"
    /\ promise = "fulfilled"

\* C15 as stated: after any sequence of progress events, the number of
\* ticks emitted for a target equals the number of 10% boundaries its
\* fraction has crossed, i.e. a tenth of the highest decile reached.
C15_OneTickPerBoundaryCrossed ==
    \A t \in TargetIdx : 10 * Len(ticks[t]) = percent[t]

Started == {t \in TargetIdx : uploader[t].kind # "none"}

\* every started target has a client of its own, and a target's decile
\* counter is the last decile ticked for that very target
OwnClientAndCounter ==
    /\ clients = Cardinality(Started)
    /\ \A t \in Started : uploader[t].client \in 1..clients
    /\ \A t, u \in Started : uploader[t].client = uploader[u].client => t = u
    /\ \A t \in TargetIdx :
          percent[t] = IF ticks[t] = <<>> THEN 0 ELSE ticks[t][Len(ticks[t])]

\* C16: after every step exactly one client exists per started target, no
\* client serves two targets, and each target's decile counter is its own;
\* a progress event that ticks for one target leaves the counter and the
\* ticks of every other target as they were, under any interleaving.
C16_ClientAndCounterPerTarget ==
    [][/\ OwnClientAndCounter'
       /\ \A t, u \in TargetIdx :
             (t # u /\ ticks'[t] # ticks[t]) =>
                (percent'[u] = percent[u] /\ ticks'[u] = ticks[u])]_vars

C16_Witness ==
    /\ Cardinality(Started) = MaxTargets
    /\ \A t \in TargetIdx : ticks[t] # <<>>
    /\ percent[1] # percent[MaxTargets]

====
